---- MODULE Spec2Model ----
(***************************************************************************)
(* discogs-tracker: the price store (src/src/database.rs, a SQLite         *)
(* database driven through rusqlite) and the paginated listing calls of    *)
(* the catalog client (src/src/discogs.rs).                                *)
(*                                                                         *)
(* Tables are modelled row by row, with the constraints their CREATE TABLE *)
(* statements declare.  An Option / a nullable column is a sequence of     *)
(* length 0 (None, NULL) or 1 (Some(v)).  Time is counted in ticks,        *)
(* TicksPerSecond of them to the second; a DateTime<Utc> is a tick count   *)
(* and a stored "%Y-%m-%d %H:%M:%S" text is a count of whole seconds (the  *)
(* text of that fixed-width format orders as the seconds do).              *)
(***************************************************************************)
EXTENDS Integers, Sequences, FiniteSets

\* ------------------------------------------------------------------ bounds

\* Number of store calls in one run of the model.
MaxOps == 3
\* The clock runs over the ticks 0..MaxNow.
MaxNow == 2
\* Sub-second resolution of a DateTime<Utc>.
TicksPerSecond == 2
\* Largest value of a u32 (page, pagination.pages), scaled down.
MaxU32 == 3
\* Seconds in a day, scaled down.
SecondsPerDay == 1

\* ------------------------------------------------------------------ inputs

ReleaseIds == {1, 2}

\* Every field of a ReleaseInfo but its id; the two values differ in each.
ReleaseValues ==
  { [title |-> "Test Album", artist |-> "Test Artist", year |-> 2023,
     format |-> "Vinyl", thumb_url |-> "thumb.jpg", added_date |-> "2023-01-01"],
    [title |-> "Other Album", artist |-> "Other Artist", year |-> 1999,
     format |-> "CD", thumb_url |-> "other.jpg", added_date |-> "2024-02-02"] }

\* Every field of a PriceRecord but its release id and timestamp.
PriceValues ==
  { [price |-> 10, currency |-> "USD", condition |-> "Various",
     listing_count |-> 3, wants_count |-> <<150>>],
    [price |-> 12, currency |-> "EUR", condition |-> "Mint",
     listing_count |-> 0, wants_count |-> <<>>] }

\* The three listing calls of DiscogsService.
ListingCalls == {"get_collection", "get_collection_by_folder", "get_wantlist"}
\* The `releases` / `wants` array of one page.
PageItems == {<<>>, <<"x">>, <<"y", "z">>}
\* The values of a u32.
U32 == 0..MaxU32

Ticks == 0..MaxNow
\* The `days` of get_price_history.
Days == {0, 1}
\* The --min and --all of the trends command (--min defaults to 5).
MinChanges == {5, 25}
FolderIds == {0, 1}
InstanceIds == {<<>>, <<7>>}
Ratings == {<<>>, <<4>>}
Notes == {<<>>, <<"mint only">>}

None == <<>>
Some(v) == <<v>>

VARIABLES
  foreign_keys,     \* whether the connection enforces FOREIGN KEY constraints
  now,              \* the wall clock, in ticks
  releases,         \* table releases: a set of rows
  price_history,    \* table price_history: rows in insertion order
  collection_items, \* table collection_items: rows in insertion order
  wants,            \* table wants: a set of rows
  sqlite_sequence,  \* AUTOINCREMENT counters, by table
  ops,              \* number of calls of the store made
  last,             \* the last call, whether it returned Ok, and its value
  upserted,         \* history: by release id, the value last passed to add_or_update_release
  want_calls,       \* history: by release id, the last add_want_item call and its outcome
  pc,               \* where the listing call stands
  call,             \* which listing call runs
  page,             \* its local `page`
  all_items,        \* its local `all_items`
  list_result,      \* what the listing call returned
  log,              \* history: the requests sent and the sleeps taken, in order
  responses,        \* history: the responses the server gave, in order
  m_pc,             \* where get_marketplace_stats stands
  m_release,        \* its release_id
  m_stats,          \* its local `stats`, once decoded
  m_result,         \* what it returned
  m_log,            \* history: the requests it sent, in order
  m_responses,      \* history: the responses it got, in order
  cli               \* the last command handler run and what it did

storeVars == <<foreign_keys, now, releases, price_history, collection_items,
               wants, sqlite_sequence, ops, last, upserted, want_calls>>

listVars == <<pc, call, page, all_items, list_result, log, responses>>

marketVars == <<m_pc, m_release, m_stats, m_result, m_log, m_responses>>

cliVars == <<cli>>

vars == <<foreign_keys, now, releases, price_history, collection_items,
          wants, sqlite_sequence, ops, last, upserted, want_calls,
          pc, call, page, all_items, list_result, log, responses,
          m_pc, m_release, m_stats, m_result, m_log, m_responses, cli>>

\* ------------------------------------------------------------------ helpers

Range(s) == {s[i] : i \in DOMAIN s}

\* Option::unwrap_or
unwrap_or(opt, default) == IF opt = None THEN default ELSE opt[1]

\* record.timestamp.format("%Y-%m-%d %H:%M:%S"): the sub-second part is dropped.
FormatTimestamp(t) == t \div TicksPerSecond

\* SQLite's CURRENT_TIMESTAMP: the clock as "%Y-%m-%d %H:%M:%S" text.
CURRENT_TIMESTAMP == FormatTimestamp(now)

\* DateTime::parse_from_str(text, "%Y-%m-%d %H:%M:%S") parses a
\* DateTime<FixedOffset>: it needs an offset, the format reads none, and the
\* parse is an Err (None here) for every stored text.
parse_from_str(text) == None

\* .map(|dt| dt.with_timezone(&Utc)).unwrap_or_else(|_| Utc::now())
ReadTimestamp(text) ==
  IF parse_from_str(text) = None THEN now
  ELSE parse_from_str(text)[1] * TicksPerSecond

\* Whether releases holds a row with this id (the parent key of the three
\* FOREIGN KEY (release_id) REFERENCES releases (id) clauses).
ReleaseExists(id) == \E row \in releases : row.id = id

\* A FOREIGN KEY violation: raised only by a connection that enforces them.
ForeignKeyViolation(release_id) == foreign_keys /\ ~ReleaseExists(release_id)

\* Equality of two column values as a UNIQUE constraint sees it: NULL is
\* distinct from every value, NULL included.
UniqueEq(a, b) == a # None /\ b # None /\ a = b

\* UNIQUE(release_id, folder_id, instance_id) of collection_items.
CollectionConflict(release_id, folder_id, instance_id) ==
  \E row \in Range(collection_items) :
    /\ row.release_id = release_id
    /\ row.folder_id = folder_id
    /\ UniqueEq(row.instance_id, instance_id)

\* What a call returned: Ok(()), Err(_) or Ok(value).  release_id is the
\* release the call was about (0: none).
Ok(op, id) == [op |-> op, release_id |-> id, ok |-> TRUE, value |-> None]
Err(op, id) == [op |-> op, release_id |-> id, ok |-> FALSE, value |-> None]
OkValue(op, id, v) == [op |-> op, release_id |-> id, ok |-> TRUE, value |-> v]

\* As INSERT OR IGNORE: a row whose id is taken is dropped.
InsertOrIgnoreIntoReleases(rows, new) ==
  IF \E row \in rows : row.id = new.id THEN rows ELSE rows \cup {new}

\* INSERT OR REPLACE INTO releases: the row with the same PRIMARY KEY (id), if
\* any, is deleted and the new row inserted.
ReplaceIntoReleases(rows, new) == {row \in rows : row.id # new.id} \cup {new}

\* As INSERT OR REPLACE keyed by release: the release's earlier rows go.
ReplaceIntoPriceHistory(rows, new) ==
  Append(SelectSeq(rows, LAMBDA row : row.release_id # new.release_id), new)

\* INSERT INTO price_history: one more row, none touched.
InsertIntoPriceHistory(rows, new) == Append(rows, new)

\* As a plain INSERT into a table without the UNIQUE(release_id) constraint.
InsertIntoWants(rows, new) == rows \cup {new}

\* INSERT OR REPLACE INTO wants: the row with the same release_id (UNIQUE), if
\* any, is deleted and the new row inserted.
ReplaceIntoWants(rows, new) ==
  {row \in rows : row.release_id # new.release_id} \cup {new}

\* As DROP TABLE followed by CREATE TABLE: the table is left empty.
DropAndCreateTable(rows, empty) == empty

\* CREATE TABLE IF NOT EXISTS on a database that has the table: nothing is
\* done, the rows stay.
CreateTableIfNotExists(rows, empty) == rows

\* ------------------------------------------------------------------ store

\* PriceDatabase::new on a new database file: run_migrations creates empty
\* tables.  Nothing in the program sets PRAGMA foreign_keys, so enforcement is
\* whatever the linked SQLite library defaults to.
Init ==
  /\ foreign_keys \in BOOLEAN
  /\ now = 0
  /\ releases = {}
  /\ price_history = <<>>
  /\ collection_items = <<>>
  /\ wants = {}
  /\ sqlite_sequence = [price_history |-> 0, collection_items |-> 0, wants |-> 0]
  /\ ops = 0
  /\ last = Ok("new", 0)
  /\ upserted = [id \in ReleaseIds |-> None]
  /\ want_calls = [id \in ReleaseIds |-> [last |-> None, last_ok |-> None]]
  /\ pc = "idle"
  /\ call = "none"
  /\ page = 0
  /\ all_items = <<>>
  /\ list_result = None
  /\ log = <<>>
  /\ responses = <<>>
  /\ m_pc = "idle"
  /\ m_release = 0
  /\ m_stats = None
  /\ m_result = None
  /\ m_log = <<>>
  /\ m_responses = <<>>
  /\ cli = [cmd |-> "none", ok |-> TRUE, args |-> None, trends |-> {}]

\* Time passes.
Tick ==
  /\ now < MaxNow
  /\ now' = now + 1
  /\ UNCHANGED <<foreign_keys, releases, price_history, collection_items,
                 wants, sqlite_sequence, ops, last, upserted, want_calls>>
  /\ UNCHANGED <<listVars, marketVars, cliVars>>

\* PriceDatabase::new on the database file again: every statement of
\* run_migrations is CREATE ... IF NOT EXISTS and finds its table or index.
run_migrations ==
  /\ ops < MaxOps
  /\ ops' = ops + 1
  /\ releases' = CreateTableIfNotExists(releases, {})
  /\ price_history' = CreateTableIfNotExists(price_history, <<>>)
  /\ collection_items' = CreateTableIfNotExists(collection_items, <<>>)
  /\ wants' = CreateTableIfNotExists(wants, {})
  /\ last' = Ok("run_migrations", 0)
  /\ UNCHANGED <<foreign_keys, now, sqlite_sequence, upserted, want_calls>>
  /\ UNCHANGED <<listVars, marketVars, cliVars>>

\* INSERT OR REPLACE INTO releases, updated_at set from the clock.
add_or_update_release(id, v) ==
  /\ ops < MaxOps
  /\ releases' = ReplaceIntoReleases(releases,
       [id |-> id, title |-> v.title, artist |-> v.artist, year |-> v.year,
        format |-> v.format, thumb_url |-> v.thumb_url,
        added_date |-> v.added_date, updated_at |-> CURRENT_TIMESTAMP])
  /\ ops' = ops + 1
  /\ last' = Ok("add_or_update_release", id)
  /\ upserted' = [upserted EXCEPT ![id] = Some(v)]
  /\ UNCHANGED <<foreign_keys, now, price_history, collection_items, wants,
                 sqlite_sequence, want_calls>>
  /\ UNCHANGED <<listVars, marketVars, cliVars>>

\* INSERT INTO price_history: a plain insert of one row.
add_price_record(release_id, v, t) ==
  /\ ops < MaxOps
  /\ ops' = ops + 1
  /\ IF ForeignKeyViolation(release_id)
     THEN /\ last' = Err("add_price_record", release_id)
          /\ UNCHANGED <<price_history, sqlite_sequence>>
     ELSE /\ price_history' = InsertIntoPriceHistory(price_history,
               [id |-> sqlite_sequence.price_history + 1,
                release_id |-> release_id, price |-> v.price,
                currency |-> v.currency, condition |-> v.condition,
                timestamp |-> FormatTimestamp(t),
                listing_count |-> v.listing_count,
                wants_count |-> v.wants_count])
          /\ sqlite_sequence' = [sqlite_sequence EXCEPT
               !.price_history = sqlite_sequence.price_history + 1]
          /\ last' = Ok("add_price_record", release_id)
  /\ UNCHANGED <<foreign_keys, now, releases, collection_items, wants,
                 upserted, want_calls>>
  /\ UNCHANGED <<listVars, marketVars, cliVars>>

\* INSERT OR IGNORE INTO collection_items: a row that conflicts with the
\* UNIQUE constraint is skipped; OR IGNORE does not cover a FOREIGN KEY
\* violation, which fails the statement.
add_collection_item(release_id, folder_id, instance_id) ==
  /\ ops < MaxOps
  /\ ops' = ops + 1
  /\ IF CollectionConflict(release_id, folder_id, instance_id)
     THEN /\ last' = Ok("add_collection_item", release_id)
          /\ UNCHANGED <<collection_items, sqlite_sequence>>
     ELSE IF ForeignKeyViolation(release_id)
     THEN /\ last' = Err("add_collection_item", release_id)
          /\ UNCHANGED <<collection_items, sqlite_sequence>>
     ELSE /\ collection_items' = Append(collection_items,
               [id |-> sqlite_sequence.collection_items + 1,
                release_id |-> release_id, folder_id |-> folder_id,
                instance_id |-> instance_id, rating |-> Some(0),
                date_added |-> CURRENT_TIMESTAMP])
          /\ sqlite_sequence' = [sqlite_sequence EXCEPT
               !.collection_items = sqlite_sequence.collection_items + 1]
          /\ last' = Ok("add_collection_item", release_id)
  /\ UNCHANGED <<foreign_keys, now, releases, price_history, wants,
                 upserted, want_calls>>
  /\ UNCHANGED <<listVars, marketVars, cliVars>>

\* INSERT OR REPLACE INTO wants: the row with the same release_id (UNIQUE) is
\* deleted and the new row inserted under a new AUTOINCREMENT id; a FOREIGN
\* KEY violation fails the statement and rolls the deletion back.
add_want_item(release_id, rating, notes) ==
  /\ ops < MaxOps
  /\ ops' = ops + 1
  /\ IF ForeignKeyViolation(release_id)
     THEN /\ last' = Err("add_want_item", release_id)
          /\ want_calls' = [want_calls EXCEPT ![release_id].last =
               Some([rating |-> rating, notes |-> notes])]
          /\ UNCHANGED <<wants, sqlite_sequence>>
     ELSE /\ wants' = ReplaceIntoWants(wants,
               [id |-> sqlite_sequence.wants + 1, release_id |-> release_id,
                rating |-> Some(unwrap_or(rating, 0)), notes |-> notes,
                date_added |-> CURRENT_TIMESTAMP])
          /\ sqlite_sequence' = [sqlite_sequence EXCEPT
               !.wants = sqlite_sequence.wants + 1]
          /\ last' = Ok("add_want_item", release_id)
          /\ want_calls' = [want_calls EXCEPT ![release_id] =
               [last |-> Some([rating |-> rating, notes |-> notes]),
                last_ok |-> Some([rating |-> rating, notes |-> notes])]]
  /\ UNCHANGED <<foreign_keys, now, releases, price_history, collection_items,
                 upserted>>
  /\ UNCHANGED <<listVars, marketVars, cliVars>>

\* ------------------------------------------------------------------ queries
\* A query is the set of values it may return in the current state.

\* SELECT ... FROM releases WHERE id = ?1, query_row: the first row, or
\* QueryReturnedNoRows mapped to None.  updated_at is not selected.
get_release_results(release_id) ==
  LET rows == {row \in releases : row.id = release_id}
  IN IF rows = {} THEN {None}
     ELSE {Some([id |-> row.id, title |-> row.title, artist |-> row.artist,
                 year |-> row.year, format |-> row.format,
                 thumb_url |-> row.thumb_url, added_date |-> row.added_date])
           : row \in rows}

\* As ORDER BY timestamp ASC LIMIT 1: the earliest rows of the release.
EarliestRows(release_id) ==
  LET rows == {row \in Range(price_history) : row.release_id = release_id}
  IN {row \in rows : \A other \in rows : row.timestamp <= other.timestamp}

\* The rows ORDER BY timestamp DESC LIMIT 1 may deliver: those of the release
\* that no other row of the release follows in timestamp order.  Among rows of
\* equal timestamp SQLite is free to deliver any.
LatestRows(release_id) ==
  LET rows == {row \in Range(price_history) : row.release_id = release_id}
  IN {row \in rows : \A other \in rows : row.timestamp >= other.timestamp}

\* The PriceRecord built from a row of price_history.
PriceRecordOf(row) ==
  [id |-> Some(row.id), release_id |-> row.release_id, price |-> row.price,
   currency |-> row.currency, condition |-> row.condition,
   timestamp |-> ReadTimestamp(row.timestamp),
   listing_count |-> row.listing_count, wants_count |-> row.wants_count]

get_latest_price_results(release_id) ==
  IF LatestRows(release_id) = {} THEN {None}
  ELSE {Some(PriceRecordOf(row)) : row \in LatestRows(release_id)}

\* SELECT COUNT(*) FROM collection_items
get_collection_count == Len(collection_items)

\* SELECT COUNT(*) FROM wants
get_wants_count == Cardinality(wants)

get_release(release_id) ==
  /\ ops < MaxOps
  /\ ops' = ops + 1
  /\ \E r \in get_release_results(release_id) : last' = OkValue("get_release", release_id, r)
  /\ UNCHANGED <<foreign_keys, now, releases, price_history, collection_items,
                 wants, sqlite_sequence, upserted, want_calls>>
  /\ UNCHANGED <<listVars, marketVars, cliVars>>

get_latest_price(release_id) ==
  /\ ops < MaxOps
  /\ ops' = ops + 1
  /\ \E r \in get_latest_price_results(release_id) :
       last' = OkValue("get_latest_price", release_id, r)
  /\ UNCHANGED <<foreign_keys, now, releases, price_history, collection_items,
                 wants, sqlite_sequence, upserted, want_calls>>
  /\ UNCHANGED <<listVars, marketVars, cliVars>>

\* ------------------------------------------------------------------ listing
\* get_collection, get_collection_by_folder and get_wantlist are the same loop
\* over three URLs.

\* What make_request may return: an Err (transport failure, non-2xx status,
\* undecodable body) or a decoded page with whatever pagination.pages and
\* items the server chose to send.
Responses ==
  {[ok |-> FALSE, pages |-> 0, items |-> <<>>]} \cup
  {[ok |-> TRUE, pages |-> n, items |-> i] : n \in U32, i \in PageItems}

\* As `if page > response.pagination.pages`.
IsPastLastPage(p, pages) == p > pages

\* if page >= response.pagination.pages { break; }
IsLastPage(p, pages) == p >= pages

\* all_items.extend(response.releases)
Extend(items, more) == items \o more

\* As a loop that never advances `page`.
AddNone(n) == {[panic |-> FALSE, value |-> n]}

\* page += 1 on a u32: past the largest value a build with overflow checks
\* panics and one without wraps to 0.
AddOne(n) ==
  IF n < MaxU32 THEN {[panic |-> FALSE, value |-> n + 1]}
  ELSE {[panic |-> TRUE, value |-> n], [panic |-> FALSE, value |-> 0]}

\* As a loop that sends the request for the page again after an Err.
RetryOnErr == "request"

\* let response = self.make_request(&url).await?; the `?` returns the Err
\* from the call.
ReturnOnErr == "failed"

\* let mut all_items = Vec::new(); let mut page = 1;
StartListing(kind) ==
  /\ pc = "idle"
  /\ pc' = "request"
  /\ call' = kind
  /\ page' = 1
  /\ all_items' = <<>>
  /\ UNCHANGED <<list_result, log, responses>>
  /\ UNCHANGED <<storeVars, marketVars, cliVars>>

\* One turn of the loop up to the sleep: the request for `page`, the `?` on
\* its result, the extend, the test of the last page and the increment.
RequestPage ==
  /\ pc = "request"
  /\ log' = Append(log, [kind |-> "request", call |-> call, page |-> page])
  /\ \E resp \in Responses :
       /\ responses' = Append(responses, resp)
       /\ IF ~resp.ok
          THEN /\ pc' = ReturnOnErr
               /\ list_result' = Some([ok |-> FALSE, items |-> <<>>])
               /\ UNCHANGED <<page, all_items>>
          ELSE /\ all_items' = Extend(all_items, resp.items)
               /\ IF IsLastPage(page, resp.pages)
                  THEN /\ pc' = "done"
                       /\ list_result' = Some([ok |-> TRUE, items |-> all_items'])
                       /\ UNCHANGED page
                  ELSE \E n \in AddOne(page) :
                       /\ page' = n.value
                       /\ pc' = IF n.panic THEN "panicked" ELSE "sleep"
                       /\ UNCHANGED list_result
  /\ UNCHANGED call
  /\ UNCHANGED <<storeVars, marketVars, cliVars>>

\* sleep(Duration::from_millis(1000)).await
Sleep ==
  /\ pc = "sleep"
  /\ log' = Append(log, [kind |-> "sleep", call |-> call, page |-> 1000])
  /\ pc' = "request"
  /\ UNCHANGED <<call, page, all_items, list_result, responses>>
  /\ UNCHANGED <<storeVars, marketVars, cliVars>>

ListNext ==
  \/ \E kind \in ListingCalls : StartListing(kind)
  \/ RequestPage
  \/ Sleep

\* ------------------------------------------------------------------ marketplace

\* DiscogsPrice values a stats response may carry as lowest_price.
LowestPrices ==
  {None, Some([value |-> 10, currency |-> "USD"]),
         Some([value |-> 12, currency |-> "EUR"])}

\* What make_request may return for /marketplace/stats/{release_id}: an Err
\* or a decoded DiscogsMarketplaceStats.
StatsResponses ==
  {[ok |-> FALSE, lowest_price |-> None, num_for_sale |-> 0,
    blocked_from_sale |-> FALSE]} \cup
  {[ok |-> TRUE, lowest_price |-> p, num_for_sale |-> n, blocked_from_sale |-> b]
     : p \in LowestPrices, n \in {0, 1, 3}, b \in BOOLEAN}

\* What make_request may return for /releases/{release_id}: an Err or a
\* decoded DiscogsReleaseInfo, with or without community data.
ReleaseResponses ==
  {[ok |-> FALSE, community |-> None], [ok |-> TRUE, community |-> None],
   [ok |-> TRUE, community |-> Some([want |-> 150, have |-> 20])],
   [ok |-> TRUE, community |-> Some([want |-> 0, have |-> 3])]}

\* A Result<Option<MarketplacePrice>>.
OkNone == [ok |-> TRUE, value |-> None]
OkSome(v) == [ok |-> TRUE, value |-> Some(v)]
ErrResult == [ok |-> FALSE, value |-> None]

\* As a match on stats.lowest_price alone.
HasLowestPrice(stats) == stats.lowest_price # None

\* match stats.lowest_price { Some(price) if stats.num_for_sale > 0 => price,
\* _ => return Ok(None) }
HasPrice(stats) == stats.lowest_price # None /\ stats.num_for_sale > 0

\* get_wants_count: the `?` on the request, then
\* release_data.community.map(|c| c.want).unwrap_or(0).
get_wants_count_result(resp) ==
  IF ~resp.ok THEN [ok |-> FALSE, value |-> 0]
  ELSE [ok |-> TRUE,
        value |-> IF resp.community = None THEN 0 ELSE resp.community[1].want]

\* MarketplacePrice { price, currency, condition: "Various", listing_count,
\* wants_count }
MarketplacePriceOf(stats, wants_count) ==
  [price |-> stats.lowest_price[1].value,
   currency |-> stats.lowest_price[1].currency,
   condition |-> "Various",
   listing_count |-> stats.num_for_sale,
   wants_count |-> wants_count]

\* As `self.get_wants_count(release_id).await?`.
FinishOrFail(stats, counted) ==
  IF counted.ok THEN OkSome(MarketplacePriceOf(stats, counted.value)) ELSE ErrResult

\* let wants_count = self.get_wants_count(release_id).await.unwrap_or(0);
\* Ok(Some(MarketplacePrice { .. }))
FinishWithWants(stats, counted) ==
  OkSome(MarketplacePriceOf(stats, IF counted.ok THEN counted.value ELSE 0))

\* What get_marketplace_stats returns when the stats request fails:
\* Err(_) => return Ok(None).
OnStatsErr == OkNone

StartMarketplaceStats(release_id) ==
  /\ m_pc = "idle"
  /\ m_pc' = "stats"
  /\ m_release' = release_id
  /\ UNCHANGED <<m_stats, m_result, m_log, m_responses>>
  /\ UNCHANGED <<storeVars, listVars, cliVars>>

\* The request to the stats endpoint and the two matches on its result.
RequestStats ==
  /\ m_pc = "stats"
  /\ m_log' = Append(m_log, [url |-> "marketplace/stats", release_id |-> m_release])
  /\ \E resp \in StatsResponses :
       /\ m_responses' = Append(m_responses, resp)
       /\ IF ~resp.ok
          THEN /\ m_result' = Some(OnStatsErr)
               /\ m_pc' = "done"
               /\ UNCHANGED m_stats
          ELSE IF ~HasPrice(resp)
          THEN /\ m_result' = Some(OkNone)
               /\ m_pc' = "done"
               /\ m_stats' = Some(resp)
          ELSE /\ m_stats' = Some(resp)
               /\ m_pc' = "wants"
               /\ UNCHANGED m_result
  /\ UNCHANGED m_release
  /\ UNCHANGED <<storeVars, listVars, cliVars>>

\* The request to the release endpoint (get_wants_count) and the return.
RequestRelease ==
  /\ m_pc = "wants"
  /\ m_log' = Append(m_log, [url |-> "releases", release_id |-> m_release])
  /\ \E resp \in ReleaseResponses :
       /\ m_responses' = Append(m_responses, resp)
       /\ m_result' = Some(FinishWithWants(m_stats[1], get_wants_count_result(resp)))
  /\ m_pc' = "done"
  /\ UNCHANGED <<m_release, m_stats>>
  /\ UNCHANGED <<storeVars, listVars, cliVars>>

MarketNext ==
  \/ \E id \in ReleaseIds : StartMarketplaceStats(id)
  \/ RequestStats
  \/ RequestRelease

\* ------------------------------------------------------------------ history and commands

\* datetime('now', '-' || ?2 || ' days'), as "%Y-%m-%d %H:%M:%S" text.
WindowStart(days) == CURRENT_TIMESTAMP - days * SecondsPerDay

\* WHERE release_id = ?1 AND timestamp >= datetime('now', ...)
HistoryRows(release_id, days) ==
  {row \in Range(price_history) :
     row.release_id = release_id /\ row.timestamp >= WindowStart(days)}

\* ORDER BY timestamp ASC: the orders the rows may come in; rows of equal
\* timestamp come in any order.
AscendingOrders(rows) ==
  {f \in [1..Cardinality(rows) -> rows] :
     /\ \A i, j \in DOMAIN f : f[i] = f[j] => i = j
     /\ \A i, j \in DOMAIN f : i < j => f[i].timestamp <= f[j].timestamp}

get_price_history_results(release_id, days) ==
  {[i \in DOMAIN f |-> PriceRecordOf(f[i])]
     : f \in AscendingOrders(HistoryRows(release_id, days))}

get_price_history(release_id, days) ==
  /\ ops < MaxOps
  /\ ops' = ops + 1
  /\ \E r \in get_price_history_results(release_id, days) :
       last' = OkValue("get_price_history", release_id, r)
  /\ UNCHANGED <<foreign_keys, now, releases, price_history, collection_items,
                 wants, sqlite_sequence, upserted, want_calls>>
  /\ UNCHANGED <<listVars, marketVars, cliVars>>

\* PriceDatabase::new(None)? in a command handler: the migrations run on the
\* database the earlier runs left.
OpenDatabase ==
  /\ releases' = CreateTableIfNotExists(releases, {})
  /\ price_history' = CreateTableIfNotExists(price_history, <<>>)
  /\ collection_items' = CreateTableIfNotExists(collection_items, <<>>)
  /\ wants' = CreateTableIfNotExists(wants, {})
  /\ last' = Ok("run_migrations", 0)
  /\ UNCHANGED <<foreign_keys, now, sqlite_sequence, ops, upserted, want_calls>>

\* Cli::handle_sync: loads the configuration, builds the client and opens the
\* store, prints, and returns Ok(()); the sync itself is a TODO.  It sends no
\* request and writes no row.
handle_sync(threads, batch, force, config_ok) ==
  /\ IF config_ok
     THEN /\ OpenDatabase
          /\ cli' = [cmd |-> "sync", ok |-> TRUE,
                     args |-> Some([threads |-> threads, batch |-> batch,
                                    force |-> force]),
                     trends |-> {}]
     ELSE /\ cli' = [cmd |-> "sync", ok |-> FALSE,
                     args |-> Some([threads |-> threads, batch |-> batch,
                                    force |-> force]),
                     trends |-> {}]
          /\ UNCHANGED storeVars
  /\ UNCHANGED <<listVars, marketVars>>

\* Cli::handle_trends: opens the store, prints, and returns Ok(()); the
\* analysis is a TODO.  It reads no observation and reports no trend.
handle_trends(min_change, show_all) ==
  /\ OpenDatabase
  /\ cli' = [cmd |-> "trends", ok |-> TRUE,
             args |-> Some([min_change |-> min_change, show_all |-> show_all]),
             trends |-> {}]
  /\ UNCHANGED <<listVars, marketVars>>

StoreNext ==
  \/ Tick
  \/ run_migrations
  \/ \E id \in ReleaseIds, v \in ReleaseValues : add_or_update_release(id, v)
  \/ \E id \in ReleaseIds, v \in PriceValues, t \in Ticks : add_price_record(id, v, t)
  \/ \E id \in ReleaseIds, f \in FolderIds, i \in InstanceIds : add_collection_item(id, f, i)
  \/ \E id \in ReleaseIds, r \in Ratings, n \in Notes : add_want_item(id, r, n)
  \/ \E id \in ReleaseIds : get_release(id)
  \/ \E id \in ReleaseIds : get_latest_price(id)

\* The store and the catalog client share no state (handle_sync builds both
\* and uses neither), so each is checked under its own specification.
Next == StoreNext

\* The store calls together with the history query and the command handlers.
CliNext ==
  \/ StoreNext
  \/ \E id \in ReleaseIds, days \in Days : get_price_history(id, days)
  \/ \E force \in BOOLEAN, config_ok \in BOOLEAN : handle_sync(8, 25, force, config_ok)
  \/ \E m \in MinChanges, all \in BOOLEAN : handle_trends(m, all)

Spec == Init /\ [][Next]_vars

ListSpec == Init /\ [][ListNext]_vars

MarketSpec == Init /\ [][MarketNext]_vars

CliSpec == Init /\ [][CliNext]_vars

\* A started call is an async task that is polled to completion: a request
\* returns (the client has a 30 s timeout) and a sleep ends.
FairListSpec == Init /\ [][ListNext]_vars /\ WF_vars(RequestPage) /\ WF_vars(Sleep)

\* ------------------------------------------------------------------ claims

\* The step just taken was a call of `op`.
Called(op) == ops' = ops + 1 /\ last'.op = op

RowsOf(release_id) ==
  {row \in Range(price_history) : row.release_id = release_id}

\* C1: add_price_record with a release id that has no row in releases returns
\* an error and leaves price_history and releases as they were.
C1_UnknownReleaseRejected ==
  [][(Called("add_price_record") /\ ~ReleaseExists(last'.release_id))
       => (~last'.ok /\ price_history' = price_history /\ releases' = releases)]_vars

\* C2: every row of price_history, collection_items and wants has the
\* release_id of an existing row of releases.
C2_ReferentialIntegrity ==
  /\ \A row \in Range(price_history) : ReleaseExists(row.release_id)
  /\ \A row \in Range(collection_items) : ReleaseExists(row.release_id)
  /\ \A row \in wants : ReleaseExists(row.release_id)

\* C3: price history is append-only: a successful add_price_record adds one
\* observation after the stored ones and changes none of them, and every other
\* step (add_or_update_release, add_collection_item, add_want_item, the
\* migrations, the queries, a failed add_price_record) leaves price_history as
\* it was.
C3_AppendOnly ==
  [][IF Called("add_price_record") /\ last'.ok
     THEN /\ Len(price_history') = Len(price_history) + 1
          /\ SubSeq(price_history', 1, Len(price_history)) = price_history
          /\ price_history'[Len(price_history')].release_id = last'.release_id
     ELSE price_history' = price_history]_vars

\* A release is upserted again while observations of it are stored.
C3_Witness ==
  /\ last.op = "add_or_update_release"
  /\ RowsOf(last.release_id) # {}

\* C4: collection_items holds at most one row per (release_id, folder_id,
\* instance_id) triple, an absent instance_id included.  Stated of the
\* connections that enforce foreign keys, where every stored triple is that of
\* a stored release.
C4_UniqueTriple ==
  foreign_keys =>
  \A i, j \in DOMAIN collection_items :
    (/\ collection_items[i].release_id = collection_items[j].release_id
     /\ collection_items[i].folder_id = collection_items[j].folder_id
     /\ collection_items[i].instance_id = collection_items[j].instance_id)
    => i = j

\* The row of wants that a call add_want_item(id, rating, notes) leaves.
WantRowMatches(row, id, c) ==
  /\ row.release_id = id
  /\ row.rating = Some(unwrap_or(c.rating, 0))
  /\ row.notes = c.notes

\* C5, as stated: wants holds exactly one row per release id passed to
\* add_want_item, with the rating and notes of the most recent call for it,
\* and get_wants_count is the number of ids passed.
C5_OneRowPerIdPassed ==
  /\ \A id \in ReleaseIds :
       LET rows == {row \in wants : row.release_id = id}
       IN IF want_calls[id].last = None THEN rows = {}
          ELSE /\ Cardinality(rows) = 1
               /\ \A row \in rows : WantRowMatches(row, id, want_calls[id].last[1])
  /\ get_wants_count = Cardinality({id \in ReleaseIds : want_calls[id].last # None})

\* C5, amended: wants holds exactly one row per release id passed to a call of
\* add_want_item that returned Ok, with the rating (absent: 0) and notes of the
\* most recent such call, and none for any other id; get_wants_count is the
\* number of those ids.
C5_OneRowPerIdAccepted ==
  /\ \A id \in ReleaseIds :
       LET rows == {row \in wants : row.release_id = id}
       IN IF want_calls[id].last_ok = None THEN rows = {}
          ELSE /\ Cardinality(rows) = 1
               /\ \A row \in rows : WantRowMatches(row, id, want_calls[id].last_ok[1])
  /\ \A row \in wants : row.release_id \in ReleaseIds
  /\ get_wants_count = Cardinality({id \in ReleaseIds : want_calls[id].last_ok # None})

\* add_want_item has replaced the row of an earlier call for the same release.
C5_Witness ==
  /\ last.op = "add_want_item"
  /\ last.ok
  /\ sqlite_sequence.wants >= 2
  /\ get_wants_count = 1

\* What get_release returns for a release last upserted with value v.
ReleaseInfoOf(id, v) ==
  [id |-> id, title |-> v.title, artist |-> v.artist, year |-> v.year,
   format |-> v.format, thumb_url |-> v.thumb_url, added_date |-> v.added_date]

ExpectedRelease(id) ==
  IF upserted[id] = None THEN None ELSE Some(ReleaseInfoOf(id, upserted[id][1]))

C6_LastUpsertWins ==
  /\ \A id \in ReleaseIds :
       /\ Cardinality({row \in releases : row.id = id})
            = IF upserted[id] = None THEN 0 ELSE 1
       /\ get_release_results(id) = {ExpectedRelease(id)}
  /\ \A row \in releases : row.id \in ReleaseIds
  /\ last.op = "get_release" => last.value = ExpectedRelease(last.release_id)

C6_UpsertIdempotent ==
  (Called("add_or_update_release")
     /\ upserted'[last'.release_id] = upserted[last'.release_id])
  => \A id \in ReleaseIds : get_release_results(id)' = get_release_results(id)

\* C6: releases holds exactly one row per id upserted; get_release returns
\* the fields of the most recent upsert of the id and None for an id never
\* upserted; upserting the value a release already has changes nothing that
\* get_release returns.
C6_ReleaseUpsert == []C6_LastUpsertWins /\ [][C6_UpsertIdempotent]_vars

\* get_release returns the second of two values upserted for a release.
C6_Witness ==
  /\ last.op = "get_release"
  /\ last.value # None
  /\ last.value[1].title = "Other Album"
  /\ \E row \in releases : row.id = last.release_id /\ row.updated_at > 0

\* What get_latest_price(release_id) may return when the claim holds.
IsLatestOf(result, release_id) ==
  IF RowsOf(release_id) = {} THEN result = None
  ELSE /\ result # None
       /\ result[1].release_id = release_id
       /\ \E row \in RowsOf(release_id) :
            /\ Some(row.id) = result[1].id
            /\ row.price = result[1].price
            /\ \A other \in RowsOf(release_id) : row.timestamp >= other.timestamp

\* C7: get_latest_price(r) returns None exactly when no observation of r is
\* stored, and otherwise an observation of r whose stored timestamp is at
\* least that of every other observation of r.
C7_LatestPrice ==
  /\ \A r \in ReleaseIds :
       \A result \in get_latest_price_results(r) : IsLatestOf(result, r)
  /\ last.op = "get_latest_price" => IsLatestOf(last.value, last.release_id)

\* get_latest_price returns the first stored of two observations, the later
\* one by timestamp.
C7_Witness ==
  /\ last.op = "get_latest_price"
  /\ Len(price_history) = 2
  /\ price_history[1].release_id = price_history[2].release_id
  /\ price_history[1].timestamp > price_history[2].timestamp
  /\ last.value # None
  /\ last.value[1].id = Some(1)

\* C8: no two stored observations of one release have equal stored
\* timestamps.  Stated of the connections that enforce foreign keys, where
\* every observation is that of a stored release.
C8_DistinctTimestamps ==
  foreign_keys =>
  \A i, j \in DOMAIN price_history :
    (/\ price_history[i].release_id = price_history[j].release_id
     /\ price_history[i].timestamp = price_history[j].timestamp)
    => i = j

\* The log of a call that asks for the pages 1..n in order and sleeps one
\* second between each two requests, and only there.
ExpectedLog(c, n) ==
  [i \in 1..(2 * n - 1) |->
     IF i % 2 = 1 THEN [kind |-> "request", call |-> c, page |-> (i + 1) \div 2]
     ELSE [kind |-> "sleep", call |-> c, page |-> 1000]]

RECURSIVE ItemsOf(_)
\* The items of a sequence of responses, in order.
ItemsOf(rs) ==
  IF rs = <<>> THEN <<>> ELSE rs[1].items \o ItemsOf(Tail(rs))

\* Every response so far succeeded and reported pagination.pages = n.
AllReport(n) == \A i \in DOMAIN responses : responses[i].ok /\ responses[i].pages = n

\* C9: when every page response succeeds and reports pagination.pages = P,
\* P >= 1, a listing call sends exactly the requests for pages 1..P in order,
\* sleeps one second between each two and nowhere else, and returns the items
\* of all pages in page order; until it returns, its log is a prefix of that.
C9_Pagination ==
  \A n \in 1..MaxU32 :
    (pc # "idle" /\ AllReport(n)) =>
      /\ Len(log) <= 2 * n - 1
      /\ log = SubSeq(ExpectedLog(call, n), 1, Len(log))
      /\ pc \in {"request", "sleep", "done"}
      /\ pc = "done" <=> Len(log) = 2 * n - 1
      /\ pc = "done" => list_result = Some([ok |-> TRUE, items |-> ItemsOf(responses)])
      /\ pc = "request" => Len(log) = 2 * (page - 1)
      /\ pc = "sleep" => Len(log) = 2 * (page - 1) - 1

\* A call has returned the items of three pages, each reporting three pages,
\* not all of them empty.
C9_Witness ==
  /\ pc = "done"
  /\ AllReport(3)
  /\ Len(responses) = 3
  /\ responses[1].items # responses[2].items
  /\ list_result = Some([ok |-> TRUE, items |-> ItemsOf(responses)])

\* A call sends no more requests than `page` has values above 0, and its
\* `page += 1` never overflows.
RequestsBounded ==
  /\ Len(responses) <= MaxU32
  /\ Len(log) <= 2 * MaxU32 - 1
  /\ pc # "panicked"

\* C10: every listing call, once started, returns after finitely many page
\* requests (at most as many as a u32 has values above 0), whatever the
\* server answers, a total that grows with every response included.
C10_ListingTerminates ==
  /\ []RequestsBounded
  /\ (pc \in {"request", "sleep"}) ~> (pc \in {"done", "failed"})

\* A call has returned although each earlier response reported one page more
\* than the one before it.
C10_Witness ==
  /\ pc = "done"
  /\ Len(responses) >= 3
  /\ \A i \in 1..(Len(responses) - 1) : responses[i].ok /\ responses[i].pages = i + 1

\* The pages asked for, in the order of the requests.
RequestedPages ==
  LET reqs == SelectSeq(log, LAMBDA e : e.kind = "request")
  IN [i \in DOMAIN reqs |-> reqs[i].page]

\* C11: within one listing call no page number is requested twice, and a
\* failed page request is the last request of the call: the call returns the
\* error, with none of the items of the pages fetched before.
C11_NoRetry ==
  /\ \A i, j \in DOMAIN RequestedPages :
       RequestedPages[i] = RequestedPages[j] => i = j
  /\ Len(RequestedPages) = Len(responses)
  /\ \A i \in DOMAIN responses : ~responses[i].ok => i = Len(responses)
  /\ pc = "failed" <=> (responses # <<>> /\ ~responses[Len(responses)].ok)
  /\ pc = "failed" => list_result = Some([ok |-> FALSE, items |-> <<>>])
  /\ pc \in {"request", "sleep"} => list_result = None

\* A call fails on its third page after two pages that carried items.
C11_Witness ==
  /\ pc = "failed"
  /\ Len(responses) = 3
  /\ responses[1].items # <<>>
  /\ responses[2].items # <<>>
  /\ RequestedPages = <<1, 2, 3>>

\* The stats response of a finished lookup.
StatsResponse == m_responses[1]

\* C12: when the stats response reports num_for_sale = 0 or no lowest_price,
\* get_marketplace_stats returns Ok(None); when it reports num_for_sale > 0
\* and a lowest_price, it returns a price with that value, that currency and
\* that num_for_sale.
C12_NoPriceOrPrice ==
  (m_pc = "done" /\ StatsResponse.ok) =>
    IF StatsResponse.num_for_sale = 0 \/ StatsResponse.lowest_price = None
    THEN m_result = Some(OkNone)
    ELSE /\ m_result # None
         /\ m_result[1].ok
         /\ m_result[1].value # None
         /\ m_result[1].value[1].price = StatsResponse.lowest_price[1].value
         /\ m_result[1].value[1].currency = StatsResponse.lowest_price[1].currency
         /\ m_result[1].value[1].listing_count = StatsResponse.num_for_sale

\* A lookup has returned Ok(None) for a response with a lowest_price and no
\* listing.
C12_Witness ==
  /\ m_pc = "done"
  /\ StatsResponse.ok
  /\ StatsResponse.lowest_price # None
  /\ StatsResponse.num_for_sale = 0
  /\ m_result = Some(OkNone)

\* C13: when the stats request fails, get_marketplace_stats returns an error.
C13_StatsFailureIsError ==
  (m_pc = "done" /\ ~StatsResponse.ok) => (m_result # None /\ ~m_result[1].ok)

\* C14: the release endpoint is requested only after a stats response that
\* yields a price, and at most once; when that request fails or the release
\* has no community data, the lookup returns the price with wants_count = 0.
C14_WantsCountDegrades ==
  /\ Len(m_log) <= 2
  /\ Len(m_log) = Len(m_responses)
  /\ m_log # <<>> => m_log[1].url = "marketplace/stats"
  /\ Len(m_log) = 2 =>
       /\ m_log[2].url = "releases"
       /\ m_log[2].release_id = m_release
       /\ StatsResponse.ok
       /\ HasPrice(StatsResponse)
       /\ m_pc = "done"
       /\ m_result # None /\ m_result[1].ok /\ m_result[1].value # None
       /\ m_result[1].value[1].price = StatsResponse.lowest_price[1].value
       /\ m_result[1].value[1].wants_count =
            IF m_responses[2].ok /\ m_responses[2].community # None
            THEN m_responses[2].community[1].want ELSE 0
  /\ (m_pc = "done" /\ StatsResponse.ok /\ HasPrice(StatsResponse)) => Len(m_log) = 2

\* A lookup has returned a price although its request to the release
\* endpoint failed.
C14_Witness ==
  /\ m_pc = "done"
  /\ Len(m_log) = 2
  /\ ~m_responses[2].ok
  /\ m_result # None
  /\ m_result[1].ok
  /\ m_result[1].value # None
  /\ m_result[1].value[1].wants_count = 0

C15_NewStoreEmpty ==
  ops = 0 =>
    /\ last = Ok("new", 0)
    /\ get_collection_count = 0
    /\ get_wants_count = 0
    /\ releases = {}
    /\ price_history = <<>>

C15_ReopenKeepsRows ==
  Called("run_migrations") =>
    /\ last'.ok
    /\ releases' = releases
    /\ price_history' = price_history
    /\ collection_items' = collection_items
    /\ wants' = wants

\* C15: opening the store on a new database succeeds and yields empty tables
\* (get_collection_count = 0, get_wants_count = 0); opening it again succeeds
\* and leaves every row of releases, price_history, collection_items and wants
\* as it was, each time.
C15_MigrationsIdempotent == []C15_NewStoreEmpty /\ [][C15_ReopenKeepsRows]_vars

\* The store has been opened again while it held a release and an
\* observation.
C15_Witness ==
  /\ last.op = "run_migrations"
  /\ last.ok
  /\ releases # {}
  /\ price_history # <<>>

\* The listing calls the client has sent a request for.
ListingsCalled == {e.call : e \in {x \in Range(log) : x.kind = "request"}}

\* C16: a sync run that reports completion has called the collection and the
\* wantlist listings (Fetching) before it reconciled, priced and reached Done.
C16_SyncRunsPipeline ==
  (cli.cmd = "sync" /\ cli.ok) =>
    /\ ListingsCalled \cap {"get_collection", "get_collection_by_folder"} # {}
    /\ "get_wantlist" \in ListingsCalled

\* The (latest, previous) pairs of observations of a release that an order
\* by timestamp allows: no observation but `latest` is newer than `previous`.
RecentPairs(release_id) ==
  {pair \in RowsOf(release_id) \X RowsOf(release_id) :
     /\ pair[1] # pair[2]
     /\ pair[1].timestamp >= pair[2].timestamp
     /\ \A other \in RowsOf(release_id) \ {pair[1]} :
          pair[2].timestamp >= other.timestamp}

Abs(n) == IF n < 0 THEN -n ELSE n

\* percentChange = (latest - previous) / previous * 100, compared without
\* the division; a previous price of 0 never qualifies.
Qualifies(pair, min_change, show_all) ==
  /\ pair[2].price # 0
  /\ Abs(pair[1].price - pair[2].price) * 100 >= min_change * Abs(pair[2].price)
  /\ show_all \/ pair[1].price >= pair[2].price

Direction(change) ==
  IF change > 0 THEN "Up" ELSE IF change < 0 THEN "Down" ELSE "Stable"

TrendOf(release_id, pair) ==
  [release_id |-> release_id, current_price |-> pair[1].price,
   previous_price |-> pair[2].price,
   trend |-> Direction(pair[1].price - pair[2].price)]

\* C17: the trends command reports exactly the releases with at least two
\* observations whose two most recent ones qualify (previous price not 0,
\* abs(percentChange) >= minPercentChange, no decrease unless asked for),
\* each classified Up, Down or Stable by the sign of latest - previous.
\* Stated of the connections that enforce foreign keys.
C17_TrendsReported ==
  (foreign_keys /\ cli.cmd = "trends" /\ cli.ok) =>
    LET min_change == cli.args[1].min_change
        show_all == cli.args[1].show_all
    IN /\ \A e \in cli.trends :
            \E pair \in RecentPairs(e.release_id) :
              Qualifies(pair, min_change, show_all) /\ e = TrendOf(e.release_id, pair)
       /\ \A r \in ReleaseIds :
            (/\ RecentPairs(r) # {}
             /\ \A pair \in RecentPairs(r) : Qualifies(pair, min_change, show_all))
            => \E e \in cli.trends : e.release_id = r

\* The timestamp a read returns for the row it was built from: the appended
\* timestamp truncated to the second.
RoundTrips(record) ==
  \E row \in Range(price_history) :
    /\ Some(row.id) = record.id
    /\ record.timestamp = row.timestamp * TicksPerSecond

\* C18: get_latest_price and get_price_history return an observation with
\* the timestamp it was appended with, truncated to the second, whatever the
\* clock at the time of the read.  Stated of the connections that enforce
\* foreign keys.
C18_TimestampRoundTrip ==
  foreign_keys =>
    /\ (last.op = "get_latest_price" /\ last.value # None) => RoundTrips(last.value[1])
    /\ last.op = "get_price_history" =>
         \A i \in DOMAIN last.value : RoundTrips(last.value[i])

====
